---- MODULE Spec2Model ----
(***************************************************************************)
(* cockpit-apt bridge: the progress-streaming process supervisor of the    *)
(* install, remove and update commands, as called from the CLI main().     *)
(*                                                                         *)
(* Text is modelled as a sequence of characters.  On the status pipe a     *)
(* character is either the newline NL or one ':'-separated field of a      *)
(* status line (the ':' between two consecutive fields is implicit).       *)
(* On stdout/stderr a character is one unit of output; on update's merged  *)
(* stdout a character is one whole output line.                            *)
(***************************************************************************)
EXTENDS Integers, Sequences, FiniteSets, TLC

VARIABLES
    cmd,              \* sys.argv[1]: "install", "remove" or "update"
    package_name,     \* sys.argv[2]
    pc,               \* position of the supervisor inside main()/execute()
    child,            \* "none", "running", "exited"
    childCode,        \* the exit status the child left
    childPending,     \* a write() of the child blocked on a full pipe
    nOut, nStatus,    \* number of writes the child has issued to stdout, Status-Fd
    outPipe,          \* kernel pipe of the child's stdout
    errPipe,          \* kernel pipe of the child's stderr
    statusPipe,       \* kernel pipe of the Status-Fd side channel
    status_write,     \* supervisor's handle to the write end: "none","open","closed"
    status_read,      \* supervisor's handle to the read end:  "none","open","closed"
    writeCloses,      \* how many times os.close(status_write) ran
    fileBuf,          \* characters decoded by status_file but not yet returned
    chunk,            \* characters gathered by the read(1024) in progress
    status_buffer,    \* install.py:82
    last_percentage,  \* install.py:85
    discarded,        \* history: parsed events the dedupe test has dropped
    outLog,           \* history: the output lines apt-get update has written
    statusLog,        \* history: the characters apt-get has written to the status fd
    total_repos,      \* update.py:49
    completed_repos,  \* update.py:50
    returncode,       \* process.returncode as seen by the supervisor
    stderr,           \* the stderr value communicate() returned
    drains,           \* how many times communicate() ran
    stdout,           \* the JSON lines printed to the bridge's stdout
    raised,           \* the exception execute() raised
    returned,         \* the value execute() returned
    cliStderr,        \* the error codes main() printed to stderr
    prog,             \* the package whose cli.main() runs
    argv,             \* the options of a catalog query, as given
    args,             \* the arguments main() passed to execute()
    cache,            \* the packages apt.Cache() iterates, in order
    store,            \* the store configuration execute() found
    cacheOpens,       \* history: calls of apt.Cache()
    storeLoads,       \* history: calls of load_stores()
    iterated,         \* history: packages the loop of a catalog query has visited
    result,           \* the value a catalog query returned
    exitCode          \* the argument of sys.exit()

vars == << cmd, package_name, pc, child, childCode, childPending,
           nOut, nStatus, outPipe, errPipe, statusPipe,
           status_write, status_read, writeCloses, fileBuf, chunk,
           status_buffer, last_percentage, discarded, outLog, statusLog,
           total_repos, completed_repos,
           returncode, stderr, drains, stdout, raised, returned,
           cliStderr, exitCode, prog, argv, args, cache, store,
           cacheOpens, storeLoads, iterated, result >>

supVars == << fileBuf, chunk, status_buffer, last_percentage, discarded >>
updVars == << total_repos, completed_repos >>
childVars == << child, childCode, childPending, nOut, nStatus,
               outLog, statusLog >>
pipeVars == << outPipe, errPipe, statusPipe >>
fdVars == << status_write, status_read, writeCloses >>
endVars == << raised, returned, cliStderr, exitCode >>
qryVars == << prog, argv, args, cache, store, cacheOpens, storeLoads,
             iterated, result >>
streamVars == << package_name, childVars, pipeVars, fdVars, supVars, updVars,
                returncode, stderr, drains >>

(***************************************************************************)
(* Bounds of the model.                                                    *)
(***************************************************************************)
MaxStatusLines == 2   \* status lines the child writes in one run
MaxOutWrites == 2     \* units of stdout the child writes (install/remove)
MaxUpdLines == 3      \* output lines of apt-get update
MaxRepo == 2          \* highest repository index in a Get:/Hit:/Ign: line
CapOut == 1           \* capacity of the stdout pipe, in characters
CapStatus == 6        \* capacity of the status pipe, in characters (the longest line fits)

ReadSize == 3         \* status_file.read(1024), in characters
RawChunk == 4         \* the raw read of status_file's buffer (8192 bytes), in characters

NL == "\n"

(***************************************************************************)
(* What the child may write.                                               *)
(***************************************************************************)
\* Status-Fd lines, as their ':'-separated fields.
StatusLines ==
    { << "pmstatus", "nginx", "25.5", "Installing nginx" >>,
      << "dlstatus", "nginx", "25.0", " " >>,
      << "pmstatus", "nginx", "100.0", "Installed", "ok" >>,
      << "pmstatus", "nginx", "150", "Overshoot" >>,
      << "pmstatus", "nginx", "inf", "Stalled" >>,
      << "pmstatus", "nginx", "abc", "Garbled" >> }

\* Diagnostic phrases the code looks for in stderr.
ErrPhrases(command) ==
    { "Unable to locate package", "dpkg was interrupted",
      "You don't have enough free space" }
        \cup (IF command = "remove" THEN { "is not installed" } ELSE { })

\* What apt-get has written to stderr when it exits: nothing, one phrase, or
\* two different phrases (one unit of output per phrase).
ErrTexts(command) ==
    { << >> }
        \cup { << p >> : p \in ErrPhrases(command) }
        \cup { << pq[1], pq[2] >> :
                   pq \in { x \in ErrPhrases(command) \X ErrPhrases(command) :
                               x[1] # x[2] } }

\* Output lines of apt-get update, stderr merged in: [kind, idx] stands for
\* "<kind>:<idx> <url>"; kind "Get" with idx -1 is "Get:" without an index.
\* Two lines of a long run are among them: the 50th and the 29th item.
UpdLines ==
    [kind : {"Hit", "Ign"}, idx : 0..MaxRepo]
        \cup { [kind |-> "Get", idx |-> 1],
               [kind |-> "Get", idx |-> -1],
               [kind |-> "Ign", idx |-> 50],
               [kind |-> "Hit", idx |-> 29],
               [kind |-> "Could not resolve", idx |-> -1] }

\* The package named on the command line.
PackageNames(command) ==
    CASE command = "install" -> { "nginx", "Bad Name" }
      [] command = "remove" -> { "nginx", "bash", "Bad Name" }
      [] command = "update" -> { "" }
      [] command \in { "reverse-dependencies", "details" } ->
            { "nginx", "bash", "Bad Name" }
      [] OTHER -> { "" }

\* A remove that protects no package.
NoEssentialPackages == { }

\* remove.py:18
ESSENTIAL_PACKAGES ==
    { "dpkg", "apt", "apt-get", "libc6", "init", "systemd", "base-files",
      "base-passwd", "bash", "coreutils" }

\* validate_package_name accepts lowercase Debian package names.
ValidPackageName(name) == name \in { "nginx", "bash" }

(***************************************************************************)
(* Text helpers.                                                           *)
(***************************************************************************)
\* str.strip() of one field: " " is the only whitespace of the vocabulary.
StripStr(s) == IF s = " " THEN "" ELSE s

\* str.strip() of a text; the empty string is <<>>.
Strip(t) ==
    IF t = << >> THEN << >>
    ELSE LET a == [t EXCEPT ![1] = StripStr(t[1])]
             b == [a EXCEPT ![Len(a)] = StripStr(a[Len(a)])]
         IN  IF b = << "" >> THEN << >> ELSE b

\* "\n" in text
HasNL(t) == \E i \in 1..Len(t) : t[i] = NL

\* index of the first "\n" of a text that has one
FirstNL(t) == CHOOSE i \in 1..Len(t) : t[i] = NL /\ \A j \in 1..(i - 1) : t[j] # NL

\* phrase in text, for a text of output units
Contains(t, phrase) == \E i \in 1..Len(t) : t[i] = phrase

\* An optional str: None, or a text.
None == [isNone |-> TRUE, text |-> << >>]
Str(t) == [isNone |-> FALSE, text |-> t]

\* (x or "")
OrEmpty(x) == IF x.isNone THEN << >> ELSE x.text

Take(t, n) == SubSeq(t, 1, IF n < Len(t) THEN n ELSE Len(t))
Drop(t, n) == SubSeq(t, n + 1, Len(t))

(***************************************************************************)
(* _parse_status_line (install.py:158-191, remove.py:165-198).             *)
(***************************************************************************)
\* float(): the decimal strings of the vocabulary, in tenths.
FloatStrings == { "25.5", "25.0", "100.0", "150", "-5.7", "inf", "nan" }

FloatTenths(s) ==
    CASE s = "25.5" -> 255
      [] s = "25.0" -> 250
      [] s = "100.0" -> 1000
      [] s = "150" -> 1500
      [] s = "-5.7" -> -57

\* int(): truncation towards zero.
IntOfTenths(t) == IF t >= 0 THEN t \div 10 ELSE -((-t) \div 10)

\* line.split(":", 3): at most four parts, the fourth keeps its ':'.
Split3(line) ==
    IF Len(line) <= 4 THEN [i \in 1..Len(line) |-> << line[i] >>]
    ELSE << << line[1] >>, << line[2] >>, << line[3] >>, SubSeq(line, 4, Len(line)) >>

\* The result: [res |-> "None"], [res |-> "OverflowError"] or
\* [res |-> "event", percentage |-> int, message |-> text].
ParseStatusLine(line) ==
    IF line = << >> THEN [res |-> "None"]
    ELSE
    LET parts == Split3(line) IN
    IF Len(parts) < 4 THEN [res |-> "None"]
    ELSE
    LET status_type == parts[1][1]
        package == parts[2][1]
        percent_str == parts[3][1]
        message == parts[4]
    IN  IF status_type \notin { "pmstatus", "dlstatus" } THEN [res |-> "None"]
        ELSE IF percent_str \notin FloatStrings THEN [res |-> "None"]
        ELSE IF percent_str = "nan" THEN [res |-> "None"]  \* int(nan): ValueError
        ELSE IF percent_str = "inf" THEN [res |-> "OverflowError"]
        ELSE [ res |-> "event",
               percentage |-> IntOfTenths(FloatTenths(percent_str)),
               message |-> IF Strip(message) # << >> THEN Strip(message)
                           ELSE << "Processing ", package, "..." >> ]

(***************************************************************************)
(* The line loop of install/remove (install.py:97-113, remove.py:106-122). *)
(***************************************************************************)
\* The dedupe test with >= in place of >.
AdvancesOrRepeats(percentage, last) == percentage >= last

\* install.py:105, remove.py:114: the dedupe test.
Advances(percentage, last) == percentage > last

ProgressJson(percentage, message, origin) ==
    [type |-> "progress", percentage |-> percentage, message |-> message,
     origin |-> origin]

\* Splits the buffer at each "\n", parses the stripped line and prints the
\* events that advance.  exc names the exception that left the loop, if any.
RECURSIVE ProcessLines(_, _, _, _)
ProcessLines(buf, last, printed, dropped) ==
    IF ~HasNL(buf)
    THEN [status_buffer |-> buf, last_percentage |-> last,
          printed |-> printed, dropped |-> dropped, exc |-> "none"]
    ELSE LET i == FirstNL(buf)
             \* one pass of the while loop, for the stripped line and the
             \* buffer left after it
             OneLine(line, rest) ==
                 LET info == ParseStatusLine(line)
                 IN  IF line = << >> THEN ProcessLines(rest, last, printed, dropped)
                     ELSE IF info.res = "OverflowError"
                     THEN [status_buffer |-> rest, last_percentage |-> last,
                           printed |-> printed, dropped |-> dropped,
                           exc |-> "OverflowError"]
                     ELSE IF info.res = "event" /\ Advances(info.percentage, last)
                     THEN ProcessLines(rest, info.percentage,
                              Append(printed,
                                     ProgressJson(info.percentage, info.message,
                                                  "status")),
                              dropped)
                     ELSE IF info.res = "event"
                     THEN ProcessLines(rest, last, printed, dropped + 1)
                     ELSE ProcessLines(rest, last, printed, dropped)
         IN  CHOOSE out \in
                 { OneLine(x[1], x[2]) :
                     x \in { << Strip(SubSeq(buf, 1, i - 1)),
                                SubSeq(buf, i + 1, Len(buf)) >> } } : TRUE

(***************************************************************************)
(* Texts of the catalog queries: sequences of characters.                  *)
(***************************************************************************)
\* The characters in use, in code-point order.
Chars ==
    << " ", "-", ":", "D", "E", "G", "H", "L", "M", "N", "S", "U", "W", "_",
       "a", "b", "c", "d", "e", "g", "h", "i", "k", "l", "m", "n", "o", "p",
       "r", "s", "t", "u", "v", "w", "x", "y", "z" >>

\* str.lower() and str.upper() of one character
LowerChar(c) ==
    CASE c = "D" -> "d" [] c = "E" -> "e" [] c = "G" -> "g" [] c = "H" -> "h"
      [] c = "L" -> "l" [] c = "M" -> "m" [] c = "N" -> "n" [] c = "S" -> "s"
      [] c = "U" -> "u" [] c = "W" -> "w" [] OTHER -> c

UpperChar(c) ==
    CASE c = "d" -> "D" [] c = "e" -> "E" [] c = "g" -> "G" [] c = "h" -> "H"
      [] c = "l" -> "L" [] c = "m" -> "M" [] c = "n" -> "N" [] c = "s" -> "S"
      [] c = "u" -> "U" [] c = "w" -> "W" [] OTHER -> c

\* str.lower()
Lower(t) == [i \in 1..Len(t) |-> LowerChar(t[i])]

\* a in b, for two strings
IsSubstring(a, b) ==
    \E k \in 0..(Len(b) - Len(a)) : SubSeq(b, k + 1, k + Len(a)) = a

\* bool(x) of an optional str: None and "" are false.
Truthy(x) == ~x.isNone /\ x.text # << >>

(***************************************************************************)
(* The package cache and the store configurations.                         *)
(***************************************************************************)
MaxCache == 2         \* packages in the APT cache

\* Origin records, as (origin, label, suite).
Origin(origin, label, suite) ==
    [origin |-> origin, label |-> label, suite |-> suite]

CategoryFacet == << "c", "a", "t", "e", "g", "o", "r", "y" >>

\* The tag "facet::value"
Tag(facet, value) == facet \o << ":", ":" >> \o value

\* The packages a cache is made of.  candidate says whether pkg.candidate
\* exists; summary, section, origins and tags are those of the candidate
\* (tags: the tokens of its Tag field).
Packages ==
    { [ name |-> << "n", "g" >>, candidate |-> TRUE,
        summary |-> << "W", "e", "b" >>, section |-> << "w", "e", "b" >>,
        origins |-> << Origin(<< "D", "e", "b" >>, << "D", "e", "b" >>, << "s" >>) >>,
        tags |-> << >>,
        is_installed |-> TRUE, is_upgradable |-> FALSE ],
      [ name |-> << "s", "k" >>, candidate |-> TRUE,
        summary |-> << "N", "g" >>, section |-> << >>,
        origins |-> << Origin(<< >>, << "H", "L" >>, << "s" >>) >>,
        tags |-> << Tag(CategoryFacet, << "m", "o", "n" >>),
                    << "m", "a", "r" >>,
                    Tag(CategoryFacet, << "m", "o", "n" >>) >>,
        is_installed |-> FALSE, is_upgradable |-> FALSE ],
      [ name |-> << "g", "p" >>, candidate |-> TRUE,
        summary |-> << >>, section |-> << "n", "e", "t" >>,
        origins |-> << Origin(<< "H", "L" >>, << >>, << "s" >>) >>,
        tags |-> << Tag(CategoryFacet, << "n", "a", "v" >>),
                    Tag(CategoryFacet, << "m", "o", "n" >>) >>,
        is_installed |-> TRUE, is_upgradable |-> TRUE ],
      [ name |-> << "o", "n", "g" >>, candidate |-> FALSE,
        summary |-> << >>, section |-> << >>,
        origins |-> << >>,
        tags |-> << >>,
        is_installed |-> TRUE, is_upgradable |-> FALSE ],
      [ name |-> << "v", "i" >>, candidate |-> TRUE,
        summary |-> << "E", "d" >>, section |-> << "n", "e", "t" >>,
        origins |-> << Origin(<< "a", "b" >>, << "D", "e", "b" >>, << "s" >>) >>,
        tags |-> << Tag(CategoryFacet, << "n", "a", "v" >>) >>,
        is_installed |-> FALSE, is_upgradable |-> FALSE ] }

\* A cache: packages of different names, in the order of iteration.
Caches ==
    { c \in UNION { [1..n -> Packages] : n \in 0..MaxCache } :
        \A i, j \in 1..Len(c) : i # j => c[i].name # c[j].name }

\* What load_stores() returns: one store, selecting the packages of origin
\* or label "HL" and the packages "ong" and "vi" by name, with metadata for
\* one category.
Stores ==
    << [ id |-> << "h", "l" >>,
         filters |-> [ include_origins |-> { << "H", "L" >> },
                       include_sections |-> { },
                       include_tags |-> { },
                       include_packages |-> { << "o", "n", "g" >>, << "v", "i" >> } ],
         category_metadata |->
             << [ id |-> << "n", "a", "v" >>,
                  label |-> << "L", "o", "g" >> ] >> ] >>

(***************************************************************************)
(* Store filter, repository ids and tag facets.                            *)
(***************************************************************************)
\* (origin or label) of an origin record
OriginOrLabel(o) == IF o.origin # << >> THEN o.origin ELSE o.label

\* A filter that wants every non-empty criterion list to match.
MatchesStoreFilterAll(pkg, st) ==
    LET f == st.filters
        originKey == IF pkg.origins = << >> THEN << >>
                     ELSE OriginOrLabel(pkg.origins[1])
    IN  /\ f.include_packages # { } => pkg.name \in f.include_packages
        /\ f.include_origins # { } => originKey \in f.include_origins
        /\ f.include_sections # { } => pkg.section \in f.include_sections
        /\ f.include_tags # { } => \E i \in 1..Len(pkg.tags) :
                                       pkg.tags[i] \in f.include_tags

\* matches_store_filter(pkg, store): any non-empty criterion list matches.
MatchesStoreFilter(pkg, st) ==
    LET f == st.filters
        originKey == IF pkg.origins = << >> THEN << >>
                     ELSE OriginOrLabel(pkg.origins[1])
    IN  \/ f.include_packages # { } /\ pkg.name \in f.include_packages
        \/ f.include_origins # { } /\ originKey \in f.include_origins
        \/ f.include_sections # { } /\ pkg.section \in f.include_sections
        \/ f.include_tags # { } /\ \E i \in 1..Len(pkg.tags) :
                                      pkg.tags[i] \in f.include_tags

\* package_matches_repository(pkg, repository_id): the id derived from the
\* first origin record, "{origin or label}:{suite}", equals repository_id.
PackageMatchesRepository(pkg, repository_id) ==
    /\ pkg.origins # << >>
    /\ pkg.origins[1].suite # << >>
    /\ OriginOrLabel(pkg.origins[1]) # << >>
    /\ OriginOrLabel(pkg.origins[1]) \o << ":" >> \o pkg.origins[1].suite
           = repository_id

\* get_tag_facet(tag): the split at the first "::", none for a bare tag or an
\* empty facet or value.
GetTagFacet(tag) ==
    LET seps == { i \in 1..(Len(tag) - 1) : tag[i] = ":" /\ tag[i + 1] = ":" }
    IN  IF seps = { } THEN [ok |-> FALSE]
        ELSE LET i == CHOOSE k \in seps : \A m \in seps : k <= m
             IN  IF i = 1 \/ i + 1 = Len(tag) THEN [ok |-> FALSE]
                 ELSE [ok |-> TRUE, facet |-> SubSeq(tag, 1, i - 1),
                       value |-> SubSeq(tag, i + 2, Len(tag))]

\* parse_package_tags(pkg)
ParsePackageTags(pkg) == IF pkg.candidate THEN pkg.tags ELSE << >>

IsOfFacet(tag, facet) == GetTagFacet(tag).ok /\ GetTagFacet(tag).facet = facet

\* get_tags_by_facet(pkg, facet): the values in order of appearance,
\* duplicates kept.
GetTagsByFacet(pkg, facet) ==
    LET of == SelectSeq(ParsePackageTags(pkg), LAMBDA t : IsOfFacet(t, facet))
    IN  [i \in 1..Len(of) |-> GetTagFacet(of[i]).value]

\* derive_category_label(category_id): '-' and '_' become spaces, each word
\* is capitalised.
DeriveCategoryLabel(id) ==
    [i \in 1..Len(id) |->
        IF id[i] \in { "-", "_" } THEN " "
        ELSE IF i = 1 \/ id[i - 1] \in { "-", "_" } THEN UpperChar(id[i])
        ELSE LowerChar(id[i])]

(***************************************************************************)
(* Sorting.                                                                *)
(***************************************************************************)
Ord(c) == CHOOSE i \in 1..Len(Chars) : Chars[i] = c

\* a < b for two strings
TextLess(a, b) ==
    \E k \in 1..(Len(a) + 1) :
        /\ k <= Len(b)
        /\ SubSeq(a, 1, k - 1) = SubSeq(b, 1, k - 1)
        /\ k = Len(a) + 1 \/ Ord(a[k]) < Ord(b[k])

\* list.sort(key=Key): ascending and stable.
SortByKey(seq, Key(_)) ==
    LET pos(i) == 1 + Cardinality({ j \in 1..Len(seq) :
                        \/ TextLess(Key(seq[j]), Key(seq[i]))
                        \/ Key(seq[j]) = Key(seq[i]) /\ j < i })
    IN  [p \in 1..Len(seq) |-> seq[CHOOSE i \in 1..Len(seq) : pos(i) = p]]

(***************************************************************************)
(* reverse_dependencies.execute and details.execute                        *)
(***************************************************************************)
DepCmds == { "reverse-dependencies", "details" }

MaxDependents == 52   \* packages of a cache that depend on the queried one

\* reverse_dependencies.py:55, details.py:113: the cap of the scan
ReverseDepsLimit == 50

\* The characters of a name given on the command line.
Text(name) ==
    CASE name = "nginx" -> << "n", "g", "i", "n", "x" >>
      [] name = "bash" -> << "b", "a", "s", "h" >>
      [] OTHER -> << "B", "a", "d", " ", "N", "a", "m", "e" >>

Letters == << "a", "b", "c", "d", "e", "g", "h", "i" >>

\* The name of the i-th dependent: two letters, in alphabetical order of i.
DependentName(i) ==
    << Letters[((i - 1) \div Len(Letters)) + 1],
       Letters[((i - 1) % Len(Letters)) + 1] >>

Libc == << "l", "i", "b", "c" >>
Apache == << "a", "p", "a", "c", "h", "e" >>

\* A package that depends on nginx.  dependencies is candidate.dependencies:
\* the OR-groups, each the names of its alternatives.  Where several is
\* set, every third dependent names nginx in two of its OR-groups.
Dependent(i, several) ==
    [ name |-> DependentName(i), candidate |-> TRUE,
      dependencies |->
          IF several /\ i % 3 = 0
          THEN << << Text("nginx"), Apache >>, << Libc >>, << Text("nginx") >> >>
          ELSE IF i % 2 = 0
          THEN << << Libc >>, << Apache, Text("nginx") >> >>
          ELSE << << Text("nginx") >> >> ]

\* A cache of n dependents of nginx, iterated from the last name to the
\* first, between a package without candidate and nginx and a package that
\* does not depend on it.
DepCache(n, several) ==
    << [ name |-> << "a" >>, candidate |-> FALSE, dependencies |-> << >> ] >>
    \o [k \in 1..n |-> Dependent(n + 1 - k, several)]
    \o << [ name |-> Text("nginx"), candidate |-> TRUE,
            dependencies |-> << << Libc >> >> ],
          [ name |-> << "z", "z" >>, candidate |-> TRUE,
            dependencies |-> << << Libc, Apache >>, << Libc >> >> ] >>

DepCaches ==
    { DepCache(n, several) :
        n \in (0..3) \cup ((ReverseDepsLimit - 1)..MaxDependents),
        several \in BOOLEAN }

\* any(dep.name == package_name for dep in dep_or)
Names(dep_or, name) == \E d \in 1..Len(dep_or) : dep_or[d] = name

\* reverse_dependencies.py:59-69: the OR-groups of other_pkg from the g-th
\* on; found leaves the loop over the groups after the first append.
RECURSIVE ScanGroups(_, _, _, _)
ScanGroups(other_pkg, g, name, reverse_deps) ==
    IF g > Len(other_pkg.dependencies) THEN reverse_deps
    ELSE IF Names(other_pkg.dependencies[g], name)
    THEN Append(reverse_deps, other_pkg.name)
    ELSE IF Len(reverse_deps) >= ReverseDepsLimit THEN reverse_deps
    ELSE ScanGroups(other_pkg, g + 1, name, reverse_deps)

\* The test of the cap that lets one package more through.
CappedLate(count) == count > ReverseDepsLimit

\* reverse_dependencies.py:55, details.py:113: `if count >= 50: break`;
\* count is len(reverse_deps).
Capped(count) == count >= ReverseDepsLimit

\* reverse_dependencies.py:54-69: the packages of the cache from the k-th on
RECURSIVE ScanCache(_, _, _, _)
ScanCache(packages, k, name, reverse_deps) ==
    IF k > Len(packages) \/ Capped(Len(reverse_deps)) THEN reverse_deps
    ELSE IF packages[k].candidate
    THEN ScanCache(packages, k + 1, name,
                   ScanGroups(packages[k], 1, name, reverse_deps))
    ELSE ScanCache(packages, k + 1, name, reverse_deps)

NameKey(n) == n

\* reverse_dependencies.py:50-74
ReverseDependenciesResult(packages, name) ==
    SortByKey(ScanCache(packages, 1, name, << >>), NameKey)

\* details.py:118-125: the OR-groups of other_pkg from the g-th on; the
\* break leaves the loop over the alternatives only.
RECURSIVE DetailsScanGroups(_, _, _, _)
DetailsScanGroups(other_pkg, g, name, reverse_deps) ==
    IF g > Len(other_pkg.dependencies) THEN reverse_deps
    ELSE IF Names(other_pkg.dependencies[g], name)
    THEN IF Len(reverse_deps) + 1 >= ReverseDepsLimit
         THEN Append(reverse_deps, other_pkg.name)
         ELSE DetailsScanGroups(other_pkg, g + 1, name,
                                Append(reverse_deps, other_pkg.name))
    ELSE IF Len(reverse_deps) >= ReverseDepsLimit THEN reverse_deps
    ELSE DetailsScanGroups(other_pkg, g + 1, name, reverse_deps)

\* details.py:112-125: the packages of the cache from the k-th on
RECURSIVE DetailsScanCache(_, _, _, _)
DetailsScanCache(packages, k, name, reverse_deps) ==
    IF k > Len(packages) \/ Len(reverse_deps) >= ReverseDepsLimit
    THEN reverse_deps
    ELSE IF packages[k].candidate
    THEN DetailsScanCache(packages, k + 1, name,
                          DetailsScanGroups(packages[k], 1, name, reverse_deps))
    ELSE DetailsScanCache(packages, k + 1, name, reverse_deps)

\* details.py:95-129: of the dictionary returned, the name and the reverse
\* dependencies.
DetailsResult(packages, name) ==
    [ name |-> name,
      reverseDependencies |->
          SortByKey(DetailsScanCache(packages, 1, name, << >>), NameKey) ]

(***************************************************************************)
(* The catalog queries: command lines and cli.main()'s parsing.            *)
(***************************************************************************)
QueryCmds == { "filter-packages", "list-categories", "list-repositories" }

\* The packages that hold a cli.py with the command.
Programs(command) ==
    CASE command = "install" -> { "cockpit_apt_bridge" }
      [] command = "filter-packages" -> { "cockpit_apt_bridge", "cockpit_apt" }
      [] command = "list-categories" -> { "cockpit_apt_bridge" }
      [] command = "list-repositories" -> { "cockpit_apt_bridge" }
      [] command \in DepCmds -> { "cockpit_apt_bridge" }
      [] OTHER -> { "cockpit_apt" }

Opt(texts) == { None } \cup { Str(t) : t \in texts }

\* The values given to --store, --repo, --tab, --search and --limit; None
\* for an option that is not given.
Argv(command, program) ==
    CASE command = "filter-packages" ->
            [ store : IF program = "cockpit_apt" THEN { None }
                      ELSE Opt({ << "h", "l" >>, << "x" >> }),
              repo : Opt({ << "H", "L", ":", "s" >> }),
              tab : Opt({ << "installed" >>, << "upgradable" >>, << "bogus" >> }),
              search : Opt({ << >>, << "N", "G" >> }),
              limit : Opt({ << "0" >>, << "1" >>, << "-1" >>, << "abc" >> }) ]
      [] command \in { "list-categories", "list-repositories" } ->
            [ store : Opt({ << >>, << "h", "l" >>, << "x" >> }),
              repo : { None }, tab : { None }, search : { None },
              limit : { None } ]
      [] OTHER ->
            [ store : { None }, repo : { None }, tab : { None },
              search : { None }, limit : { None } ]

\* cli.py:244: the limit when --limit is not given
DefaultLimit == 1000

\* int(token): the decimal numerals of the vocabulary; "abc" raises
\* ValueError.
IsInt(token) == token \in { << "0" >>, << "1" >>, << "-1" >> }
IntOf(token) ==
    CASE token = << "0" >> -> 0
      [] token = << "1" >> -> 1
      [] token = << "-1" >> -> -1

NoArgs ==
    [ store_id |-> None, repository_id |-> None, tab |-> None,
      search_query |-> None, limit |-> DefaultLimit ]

\* The arguments of execute() for a command line that main() accepts.
ExecuteArgs(av) ==
    [ store_id |-> av.store, repository_id |-> av.repo, tab |-> av.tab,
      search_query |-> av.search,
      limit |-> IF av.limit.isNone THEN DefaultLimit ELSE IntOf(av.limit.text) ]

\* cockpit_apt_bridge/cli.py:286-297: the check of --limit.
NonNegative(limit) == limit >= 0

\* cockpit_apt_bridge/cli.py:236-311, 152-173: the command line is rejected
\* with INVALID_ARGUMENTS.
BridgeRejects(av) ==
    /\ ~av.limit.isNone
    /\ ~IsInt(av.limit.text) \/ ~NonNegative(IntOf(av.limit.text))

\* cockpit_apt/cli.py:153-176: argparse exits on a --tab outside its choices
\* and on a --limit that int() does not accept.
ArgparseRejects(av) ==
    \/ ~av.tab.isNone /\ av.tab.text \notin { << "installed" >>, << "upgradable" >> }
    \/ ~av.limit.isNone /\ ~IsInt(av.limit.text)

CliRejects(program, av) ==
    IF program = "cockpit_apt" THEN ArgparseRejects(av) ELSE BridgeRejects(av)

(***************************************************************************)
(* filter_packages.execute and list_categories.execute.                    *)
(***************************************************************************)
NoStore == [isNone |-> TRUE]
Found(config) == [isNone |-> FALSE, config |-> config]

\* filter_packages.py:97
StoreStage(pkg, st) == st.isNone \/ MatchesStoreFilter(pkg, st.config)

\* filter_packages.py:101
RepositoryStage(pkg, repository_id) ==
    ~Truthy(repository_id) \/ PackageMatchesRepository(pkg, repository_id.text)

\* A tab stage that tests is_installed for both tabs.
TabStageInstalledOnly(pkg, tab) ==
    tab \in { Str(<< "installed" >>), Str(<< "upgradable" >>) }
        => pkg.is_installed

\* filter_packages.py:105-108
TabStage(pkg, tab) ==
    /\ tab = Str(<< "installed" >>) => pkg.is_installed
    /\ tab = Str(<< "upgradable" >>) => pkg.is_upgradable

\* filter_packages.py:111-119
SearchStage(pkg, search_query) ==
    Truthy(search_query) =>
        LET query_lower == Lower(search_query.text)
        IN  \/ IsSubstring(query_lower, Lower(pkg.name))
            \/ pkg.summary # << >> /\ IsSubstring(query_lower, Lower(pkg.summary))

\* filter_packages.py:91-121: the packages the loop appends.
MatchingPackages(packages, a, st) ==
    SelectSeq(packages, LAMBDA pkg :
        /\ pkg.candidate
        /\ StoreStage(pkg, st)
        /\ RepositoryStage(pkg, a.repository_id)
        /\ TabStage(pkg, a.tab)
        /\ SearchStage(pkg, a.search_query))

\* formatters.py:27-50
FormatPackage(pkg) ==
    [ name |-> pkg.name,
      summary |-> IF pkg.candidate THEN pkg.summary ELSE << >>,
      installed |-> pkg.is_installed,
      section |-> IF pkg.candidate /\ pkg.section # << >> THEN pkg.section
                  ELSE << "u", "n", "k", "n", "o", "w", "n" >> ]

\* seq[:n]
Slice(seq, n) ==
    IF n >= 0 THEN Take(seq, n)
    ELSE SubSeq(seq, 1, IF Len(seq) + n > 0 THEN Len(seq) + n ELSE 0)

\* An applied_filters list with the tab entry before the repository entry.
AppliedFiltersTabFirst(a) ==
    (IF Truthy(a.store_id) THEN << << "store=" >> \o a.store_id.text >> ELSE << >>)
    \o (IF Truthy(a.tab) THEN << << "tab=" >> \o a.tab.text >> ELSE << >>)
    \o (IF Truthy(a.repository_id)
        THEN << << "repository=" >> \o a.repository_id.text >> ELSE << >>)
    \o (IF Truthy(a.search_query)
        THEN << << "search=" >> \o a.search_query.text >> ELSE << >>)

\* filter_packages.py:123-131
AppliedFilters(a) ==
    (IF Truthy(a.store_id) THEN << << "store=" >> \o a.store_id.text >> ELSE << >>)
    \o (IF Truthy(a.repository_id)
        THEN << << "repository=" >> \o a.repository_id.text >> ELSE << >>)
    \o (IF Truthy(a.tab) THEN << << "tab=" >> \o a.tab.text >> ELSE << >>)
    \o (IF Truthy(a.search_query)
        THEN << << "search=" >> \o a.search_query.text >> ELSE << >>)

\* A limited flag that compares with >=.
LimitedAtLimit(total_count, limit) == total_count >= limit

\* filter_packages.py:146
Limited(total_count, limit) == total_count > limit

\* filter_packages.py:86-147: what execute returns.
FilterResult(packages, a, st) ==
    LET matching_packages == MatchingPackages(packages, a, st)
        total_count == Len(matching_packages)
        limited_packages == Slice(matching_packages, a.limit)
    IN  [ packages |-> [i \in 1..Len(limited_packages) |->
                            FormatPackage(limited_packages[i])],
          total_count |-> total_count,
          applied_filters |-> AppliedFilters(a),
          limit |-> a.limit,
          limited |-> Limited(total_count, a.limit) ]

\* list_categories.py:77-90: the category ids the loop counts, one entry
\* per increment, in the order of the increments.
RECURSIVE CountedCategories(_, _)
CountedCategories(packages, st) ==
    IF packages = << >> THEN << >>
    ELSE LET pkg == Head(packages)
         IN  (IF StoreStage(pkg, st) /\ pkg.candidate
              THEN GetTagsByFacet(pkg, CategoryFacet) ELSE << >>)
             \o CountedCategories(Tail(packages), st)

\* The keys of category_counts, in the order of insertion.
RECURSIVE Keys(_)
Keys(increments) ==
    IF increments = << >> THEN << >>
    ELSE LET init == Keys(SubSeq(increments, 1, Len(increments) - 1))
             last == increments[Len(increments)]
         IN  IF \E i \in 1..Len(init) : init[i] = last THEN init
             ELSE Append(init, last)

\* list_categories.py:97-120: the label of the store's metadata for the id,
\* or the derived one.
CategoryLabel(category_id, st) ==
    LET metas == IF st.isNone THEN << >> ELSE st.config.category_metadata
        known == { i \in 1..Len(metas) : metas[i].id = category_id }
    IN  IF known # { }
        THEN metas[CHOOSE i \in known : \A j \in known : i >= j].label
        ELSE DeriveCategoryLabel(category_id)

CategoryKey(c) == c.label

\* list_categories.py:74-125: what execute returns.
CategoriesResult(packages, st) ==
    LET increments == CountedCategories(packages, st)
        ids == Keys(increments)
        categories ==
            [k \in 1..Len(ids) |->
                [ id |-> ids[k],
                  label |-> CategoryLabel(ids[k], st),
                  count |-> Cardinality({ i \in 1..Len(increments) :
                                            increments[i] = ids[k] }) ]]
    IN  SortByKey(categories, CategoryKey)

(***************************************************************************)
(* list_repositories.execute.                                              *)
(***************************************************************************)
\* The first origin record of a package names a repository: it has a suite
\* and an origin or a label.
HasRepository(pkg) ==
    /\ pkg.origins # << >>
    /\ pkg.origins[1].suite # << >>
    /\ OriginOrLabel(pkg.origins[1]) # << >>

RepositoryId(o) == OriginOrLabel(o) \o << ":" >> \o o.suite

RepositoryName(r) == Lower(r.name)

\* parse_repositories(cache): one repository per (origin or label, suite) of
\* a first origin record, with the number of its packages, sorted by name,
\* case-insensitively.
ParseRepositories(packages) ==
    LET with == SelectSeq(packages, HasRepository)
        first == { i \in 1..Len(with) :
                     \A j \in 1..(i - 1) :
                         RepositoryId(with[j].origins[1])
                             # RepositoryId(with[i].origins[1]) }
        firsts == SelectSeq([i \in 1..Len(with) |-> i], LAMBDA i : i \in first)
        repos ==
            [k \in 1..Len(firsts) |->
                LET o == with[firsts[k]].origins[1]
                IN  [ id |-> RepositoryId(o),
                      name |-> OriginOrLabel(o),
                      origin |-> o.origin, label |-> o.label, suite |-> o.suite,
                      package_count |->
                          Cardinality({ j \in 1..Len(with) :
                              RepositoryId(with[j].origins[1]) = RepositoryId(o) }) ]]
    IN  SortByKey(repos, RepositoryName)

\* list_repositories.py:77-92
RepoMatch(pkg, repo) ==
    /\ pkg.candidate
    /\ pkg.origins # << >>
    /\ OriginOrLabel(pkg.origins[1]) = OriginOrLabel(repo)
    /\ pkg.origins[1].suite = repo.suite

\* list_repositories.py:74-96
MatchingCount(packages, repo, config) ==
    Cardinality({ i \in 1..Len(packages) :
        RepoMatch(packages[i], repo) /\ MatchesStoreFilter(packages[i], config) })

\* A sort key that keeps the case of the name.
RepoKeyCased(r) == r.name

\* list_repositories.py:112: the sort key
RepoKey(r) == Lower(r.name)

\* list_repositories.py:65-127: what execute returns.
RepositoriesResult(packages, st) ==
    LET repositories == ParseRepositories(packages)
    IN  IF st.isNone THEN repositories
        ELSE LET kept == SelectSeq(repositories, LAMBDA repo :
                             MatchingCount(packages, repo, st.config) > 0)
                 recounted ==
                     [k \in 1..Len(kept) |->
                         [kept[k] EXCEPT !.package_count =
                             MatchingCount(packages, kept[k], st.config)]]
             IN  SortByKey(recounted, RepoKey)

(***************************************************************************)
(* Errors, and how main() ends (cli.py:365-382).                           *)
(***************************************************************************)
NoError == [cls |-> "none", code |-> "none"]
APTBridgeError(code) == [cls |-> "APTBridgeError", code |-> code]
PackageNotFoundError == [cls |-> "PackageNotFoundError", code |-> "PACKAGE_NOT_FOUND"]
CacheError == [cls |-> "CacheError", code |-> "CACHE_ERROR"]

\* cli.py:371-382: an APTBridgeError (PackageNotFoundError is one) exits 1,
\* any other exception exits 2.
CliExitCode(e) ==
    IF e.cls \in { "APTBridgeError", "PackageNotFoundError", "CacheError" }
    THEN 1 ELSE 2

\* execute() raises e; main() prints it to stderr and exits.
Fail(e) ==
    /\ raised' = e
    /\ cliStderr' = Append(cliStderr, e.code)
    /\ exitCode' = CliExitCode(e)
    /\ pc' = "done"
    /\ UNCHANGED returned

\* The exit test taking only a negative return code for a failure.
FailedBySignal(code) == code < 0

\* install.py:120, remove.py:129, update.py:91: process.returncode != 0
Failed(code) == code # 0

\* execute returning the result it has already printed.
SuccessReturnsResult == "final_result"

\* install.py:148, remove.py:155, update.py:117: what execute returns on success.
SuccessReturn == "None"

\* cli.py:367-368: main() prints a result that is not None.
CliOutput(r) ==
    IF r # "None" THEN << [type |-> "result", success |-> TRUE] >> ELSE << >>

\* The classification of install with the lock test first.
InstallErrorLockFirst(err) ==
    IF Contains(err, "dpkg was interrupted") THEN APTBridgeError("LOCKED")
    ELSE IF Contains(err, "Unable to locate package") THEN PackageNotFoundError
    ELSE IF Contains(err, "You don't have enough free space")
    THEN APTBridgeError("DISK_FULL")
    ELSE APTBridgeError("INSTALL_FAILED")

\* install.py:120-133
InstallError(err) ==
    IF Contains(err, "Unable to locate package") THEN PackageNotFoundError
    ELSE IF Contains(err, "dpkg was interrupted") THEN APTBridgeError("LOCKED")
    ELSE IF Contains(err, "You don't have enough free space")
    THEN APTBridgeError("DISK_FULL")
    ELSE APTBridgeError("INSTALL_FAILED")

\* remove.py:129-140
RemoveError(err) ==
    IF Contains(err, "Unable to locate package") \/ Contains(err, "is not installed")
    THEN PackageNotFoundError
    ELSE IF Contains(err, "dpkg was interrupted") THEN APTBridgeError("LOCKED")
    ELSE APTBridgeError("REMOVE_FAILED")

\* update.py:95-106
UpdateError(err) ==
    IF Contains(OrEmpty(err), "Could not resolve") THEN APTBridgeError("NETWORK_ERROR")
    ELSE IF Contains(OrEmpty(err), "dpkg was interrupted") THEN APTBridgeError("LOCKED")
    ELSE APTBridgeError("UPDATE_FAILED")

\* install.py:136-145, remove.py:143-152, update.py:109-114
FinalLines ==
    << ProgressJson(100, << "complete" >>, "final"),
       [type |-> "result", success |-> TRUE] >>

(***************************************************************************)
(* Initial state: the bridge was started with a command line.              *)
(***************************************************************************)
NoWrite == [fd |-> "none", data |-> << >>]

Init ==
    /\ cmd \in { "install", "remove", "update" } \cup QueryCmds \cup DepCmds
    /\ package_name \in PackageNames(cmd)
    /\ prog \in Programs(cmd)
    /\ argv \in Argv(cmd, prog)
    /\ cache \in (IF cmd \in QueryCmds THEN Caches
                  ELSE IF cmd \in DepCmds THEN DepCaches ELSE { << >> })
    /\ args = NoArgs
    /\ store = NoStore
    /\ cacheOpens = 0 /\ storeLoads = 0 /\ iterated = 0
    /\ result = << >>
    /\ pc = "main"
    /\ child = "none"
    /\ childCode = -1
    /\ childPending = NoWrite
    /\ nOut = 0 /\ nStatus = 0
    /\ outPipe = << >> /\ errPipe = << >> /\ statusPipe = << >>
    /\ status_write = "none" /\ status_read = "none" /\ writeCloses = 0
    /\ fileBuf = << >> /\ chunk = << >> /\ status_buffer = << >>
    /\ last_percentage = 0
    /\ discarded = 0
    /\ outLog = << >>
    /\ statusLog = << >>
    /\ total_repos = 0 /\ completed_repos = 0
    /\ returncode = -1
    /\ stderr = None
    /\ drains = 0
    /\ stdout = << >>
    /\ raised = NoError
    /\ returned = "unset"
    /\ cliStderr = << >>
    /\ exitCode = -1

(***************************************************************************)
(* The child process (apt-get).  A write() that finds the pipe full blocks *)
(* until the reader has made room; the child exits only when no write is   *)
(* pending.                                                                *)
(***************************************************************************)
ExitCodes == { 0, 100 }

PipeOf(fd) ==
    CASE fd = "stdout" -> outPipe
      [] fd = "status" -> statusPipe

CapOf(fd) ==
    CASE fd = "stdout" -> CapOut
      [] fd = "status" -> CapStatus

Room(fd, data) == Len(PipeOf(fd)) + Len(data) <= CapOf(fd)

\* The pipes after data was appended to the pipe of fd (stdout or status).
Accept(fd, data) ==
    /\ outPipe' = IF fd = "stdout" THEN outPipe \o data ELSE outPipe
    /\ statusPipe' = IF fd = "status" THEN statusPipe \o data ELSE statusPipe
    /\ UNCHANGED errPipe

\* write(fd, data): accepted at once, or blocked.
Write(fd, data) ==
    IF Room(fd, data)
    THEN Accept(fd, data) /\ childPending' = NoWrite
    ELSE childPending' = [fd |-> fd, data |-> data] /\ UNCHANGED pipeVars

CanWrite == child = "running" /\ childPending = NoWrite

\* apt-get writes a status line and its newline with one write().
ChildWriteStatus ==
    /\ CanWrite
    /\ cmd \in { "install", "remove" }
    /\ nStatus < MaxStatusLines
    /\ \E line \in StatusLines :
         /\ Write("status", line \o << NL >>)
         /\ statusLog' = statusLog \o line \o << NL >>
    /\ nStatus' = nStatus + 1
    /\ UNCHANGED << cmd, package_name, qryVars,
                    outLog, pc, child, childCode, nOut,
                    fdVars, supVars, updVars, returncode, stderr, drains,
                    stdout, endVars >>

ChildWriteStdout ==
    /\ CanWrite
    /\ IF cmd = "update"
       THEN /\ nOut < MaxUpdLines
            /\ \E line \in UpdLines :
                 Write("stdout", << line >>) /\ outLog' = Append(outLog, line)
       ELSE /\ nOut < MaxOutWrites
            /\ Write("stdout", << "o" >>)
            /\ UNCHANGED outLog
    /\ nOut' = nOut + 1
    /\ UNCHANGED << cmd, package_name, qryVars,
                    pc, child, childCode, statusLog,
                    nStatus, fdVars, supVars, updVars, returncode, stderr,
                    drains, stdout, endVars >>

ChildUnblock ==
    /\ child = "running"
    /\ childPending # NoWrite
    /\ Room(childPending.fd, childPending.data)
    /\ Accept(childPending.fd, childPending.data)
    /\ childPending' = NoWrite
    /\ UNCHANGED << cmd, package_name, qryVars,
                    outLog, statusLog, pc, child, childCode, nOut,
                    nStatus, fdVars, supVars, updVars, returncode, stderr,
                    drains, stdout, endVars >>

\* The child's diagnostics reach stderr before it exits; nothing reads stderr
\* until the exit was reported, so they are written here, with the exit.
\* update runs the child with stderr merged into stdout (update.py:43).
ChildExit ==
    /\ CanWrite
    /\ child' = "exited"
    /\ childCode' \in ExitCodes
    /\ errPipe' \in (IF cmd = "update" THEN { << >> } ELSE ErrTexts(cmd))
    /\ UNCHANGED << cmd, package_name, qryVars,
                    outLog, statusLog, pc, childPending, nOut, nStatus,
                    outPipe, statusPipe, fdVars, supVars, updVars, returncode,
                    stderr, drains, stdout, endVars >>

(***************************************************************************)
(* install.execute / remove.execute                                        *)
(***************************************************************************)
\* install.py:41, remove.py:55-63: validation, before anything is created.
Validate ==
    /\ pc = "main"
    /\ cmd \in { "install", "remove" }
    /\ IF ~ValidPackageName(package_name)
       THEN Fail(APTBridgeError("INVALID_INPUT"))
       ELSE IF cmd = "remove" /\ package_name \in ESSENTIAL_PACKAGES
       THEN Fail(APTBridgeError("ESSENTIAL_PACKAGE"))
       ELSE pc' = "starting" /\ UNCHANGED endVars
    /\ UNCHANGED << cmd, package_name, qryVars,
                    childVars, pipeVars, fdVars, supVars,
                    updVars, returncode, stderr, drains, stdout >>

\* install.py:63 raising: os.pipe() fails, no descriptor exists.
PipeFails ==
    /\ pc = "starting"
    /\ Fail(APTBridgeError("INTERNAL_ERROR"))
    /\ UNCHANGED << cmd, package_name, qryVars,
                    childVars, pipeVars, fdVars, supVars,
                    updVars, returncode, stderr, drains, stdout >>

\* install.py:63-73 with Popen raising: both ends of the pipe were created,
\* the handler at install.py:152-155 closes neither.
SpawnFails ==
    /\ pc = "starting"
    /\ status_read' = "open"
    /\ status_write' = "open"
    /\ UNCHANGED writeCloses
    /\ Fail(APTBridgeError("INTERNAL_ERROR"))
    /\ UNCHANGED << cmd, package_name, qryVars,
                    childVars, pipeVars, supVars, updVars,
                    returncode, stderr, drains, stdout >>

\* install.py:63-85: pipe, Popen, close of the write end, fdopen, the loop's
\* variables.
Spawn ==
    /\ pc = "starting"
    /\ child' = "running"
    /\ status_read' = "open"
    /\ status_write' = "closed"
    /\ writeCloses' = writeCloses + 1
    /\ status_buffer' = << >>
    /\ last_percentage' = 0
    /\ pc' = "poll"
    /\ UNCHANGED << cmd, package_name, qryVars,
                    childCode, childPending, nOut,
                    nStatus, outLog, statusLog, pipeVars, fileBuf, chunk,
                    discarded,
                    updVars, returncode, stderr, drains, stdout, endVars >>

\* The read end is at end-of-file once no process holds the write end.
StatusEOF == status_write # "open" /\ child # "running"

\* The loop going round once more after the exit was reported.
AfterExitSelect == "select"

\* install.py:88, 115-116: where the supervisor goes once poll() has reported
\* the exit.
AfterExit == "communicate"

\* install.py:88: process.poll()
Poll ==
    /\ pc = "poll"
    /\ IF child = "exited"
       THEN returncode' = childCode /\ pc' = AfterExit
       ELSE pc' = "select" /\ UNCHANGED returncode
    /\ UNCHANGED << cmd, package_name, qryVars,
                    childVars, pipeVars, fdVars, supVars,
                    updVars, stderr, drains, stdout, endVars >>

\* AfterRead with `status_buffer = chunk` in place of `status_buffer += chunk`:
\* what was left of the previous read is forgotten.
AfterReadNoCarry(c) ==
    \E r \in { IF c = << >>
                THEN [status_buffer |-> status_buffer,
                      last_percentage |-> last_percentage,
                      printed |-> << >>, dropped |-> discarded, exc |-> "none"]
                ELSE ProcessLines(c, last_percentage, << >>, discarded) } :
        /\ chunk' = << >>
        /\ status_buffer' = r.status_buffer
        /\ last_percentage' = r.last_percentage
        /\ discarded' = r.dropped
        /\ stdout' = stdout \o r.printed
        /\ IF r.exc = "none"
           THEN pc' = "poll" /\ UNCHANGED endVars
           ELSE Fail(APTBridgeError("INTERNAL_ERROR"))

\* install.py:94-113 once read(1024) has returned c.
AfterRead(c) ==
    \E r \in { IF c = << >>
                THEN [status_buffer |-> status_buffer,
                      last_percentage |-> last_percentage,
                      printed |-> << >>, dropped |-> discarded, exc |-> "none"]
                ELSE ProcessLines(status_buffer \o c, last_percentage, << >>,
                                  discarded) } :
        /\ chunk' = << >>
        /\ status_buffer' = r.status_buffer
        /\ last_percentage' = r.last_percentage
        /\ discarded' = r.dropped
        /\ stdout' = stdout \o r.printed
        /\ IF r.exc = "none"
           THEN pc' = "poll" /\ UNCHANGED endVars
           ELSE Fail(APTBridgeError("INTERNAL_ERROR"))

\* install.py:90-93: select() on the read end, and the start of read(1024),
\* which first takes what status_file has already decoded.
Select ==
    /\ pc = "select"
    /\ IF statusPipe = << >> /\ ~StatusEOF
       THEN pc' = "poll" /\ UNCHANGED << supVars, stdout, endVars >>
       ELSE IF Len(fileBuf) >= ReadSize
       THEN fileBuf' = Drop(fileBuf, ReadSize) /\ AfterRead(Take(fileBuf, ReadSize))
       ELSE /\ chunk' = fileBuf
            /\ fileBuf' = << >>
            /\ pc' = "read"
            /\ UNCHANGED << status_buffer, last_percentage, discarded, stdout,
                            endVars >>
    /\ UNCHANGED << cmd, package_name, qryVars,
                    childVars, pipeVars, fdVars, updVars,
                    returncode, stderr, drains >>

\* install.py:93: read(1024) of a text file blocks until it has gathered
\* ReadSize characters or met end-of-file; each raw read takes what the pipe
\* holds, up to RawChunk.
ReadRaw ==
    /\ pc = "read"
    /\ statusPipe # << >> \/ StatusEOF
    /\ LET raw == Take(statusPipe, RawChunk)
           need == ReadSize - Len(chunk)
           c == chunk \o Take(raw, need)
       IN  /\ statusPipe' = Drop(statusPipe, RawChunk)
           /\ fileBuf' = Drop(raw, need)
           /\ IF raw = << >> \/ Len(c) = ReadSize
              THEN AfterRead(c)
              ELSE /\ chunk' = c
                   /\ UNCHANGED << pc, status_buffer, last_percentage, discarded,
                                   stdout, endVars >>
    /\ UNCHANGED << cmd, package_name, qryVars,
                    childVars, outPipe, errPipe, fdVars,
                    updVars, returncode, stderr, drains >>

\* install.py:116-117: communicate() reads stdout and stderr to their end,
\* then the read end of the status pipe is closed.
Communicate ==
    /\ pc = "communicate"
    /\ stderr' = Str(errPipe)
    /\ outPipe' = << >>
    /\ errPipe' = << >>
    /\ drains' = drains + 1
    /\ status_read' = "closed"
    /\ pc' = "classify"
    /\ UNCHANGED << cmd, package_name, qryVars,
                    childVars, statusPipe, status_write,
                    writeCloses, supVars, updVars, returncode, stdout, endVars >>

\* install.py:120-148, remove.py:129-155, then cli.py:367-369.
Classify ==
    /\ pc = "classify"
    /\ cmd \in { "install", "remove" }
    /\ IF Failed(returncode)
       THEN /\ Fail(IF cmd = "install" THEN InstallError(stderr.text)
                    ELSE RemoveError(stderr.text))
            /\ UNCHANGED stdout
       ELSE /\ stdout' = stdout \o FinalLines \o CliOutput(SuccessReturn)
            /\ returned' = SuccessReturn
            /\ exitCode' = 0
            /\ pc' = "done"
            /\ UNCHANGED << raised, cliStderr >>
    /\ UNCHANGED << cmd, package_name, qryVars,
                    childVars, pipeVars, fdVars, supVars,
                    updVars, returncode, stderr, drains >>

(***************************************************************************)
(* update.execute                                                          *)
(***************************************************************************)
\* update.py:40-50
UpdateSpawn ==
    /\ pc = "main"
    /\ cmd = "update"
    /\ child' = "running"
    /\ total_repos' = 0
    /\ completed_repos' = 0
    /\ pc' = "readline"
    /\ UNCHANGED << cmd, package_name, qryVars,
                    childCode, childPending, nOut,
                    nStatus, outLog, statusLog, pipeVars, fdVars, supVars,
                    returncode,
                    stderr, drains, stdout, endVars >>

\* update.py:40-46 raising, caught at update.py:121-124.
UpdateSpawnFails ==
    /\ pc = "main"
    /\ cmd = "update"
    /\ Fail(APTBridgeError("INTERNAL_ERROR"))
    /\ UNCHANGED << cmd, package_name, qryVars,
                    childVars, pipeVars, fdVars, supVars,
                    updVars, returncode, stderr, drains, stdout >>

\* total_repos following the index of the last line.
NewTotalLast(repo_num, total) == repo_num

\* update.py:70-71
NewTotal(repo_num, total) == IF repo_num > total THEN repo_num ELSE total

\* completed_repos counting the Get and Hit lines.
NewCompletedCount(kind, repo_num, completed) ==
    IF kind \in { "Hit", "Get" } THEN completed + 1 ELSE completed

\* update.py:74-75
NewCompleted(kind, repo_num, completed) ==
    IF kind \in { "Hit", "Get" } THEN repo_num ELSE completed

\* The quotients completed/total, up to total = 100, whose double is so far
\* below the exact value that the product with 100 falls below the integer
\* floor(100 * completed / total): 29/50 * 100 = 57.99999999999999.
FloatShortfall == { << 29, 50 >>, << 29, 100 >>, << 57, 100 >>, << 58, 100 >> }

\* update.py:79: int((completed / total) * 100), in double arithmetic.
Percentage(completed, total) ==
    IF << completed, total >> \in FloatShortfall
    THEN (completed * 100) \div total - 1
    ELSE (completed * 100) \div total

\* update.py:54-85: one readline() and the body of the loop for it; at
\* end-of-file the loop is left.
UpdateReadline ==
    /\ pc = "readline"
    /\ outPipe # << >> \/ child = "exited"
    /\ IF outPipe = << >>
       THEN pc' = "wait" /\ UNCHANGED << outPipe, updVars, stdout >>
       ELSE LET line == Head(outPipe) IN
            /\ outPipe' = Tail(outPipe)
            /\ pc' = "readline"
            /\ IF line.kind \in { "Get", "Hit", "Ign" } /\ line.idx >= 0
               THEN /\ total_repos' = NewTotal(line.idx, total_repos)
                    /\ completed_repos' =
                           NewCompleted(line.kind, line.idx, completed_repos)
                    /\ stdout' =
                         IF total_repos' > 0
                         THEN Append(stdout,
                                  ProgressJson(Percentage(completed_repos', total_repos'),
                                               << "Updating: ", line.kind >>, "status"))
                         ELSE stdout
               ELSE UNCHANGED << updVars, stdout >>
    /\ UNCHANGED << cmd, package_name, qryVars,
                    childVars, errPipe, statusPipe, fdVars,
                    supVars, returncode, stderr, drains, endVars >>

\* update.py:88: process.wait()
UpdateWait ==
    /\ pc = "wait"
    /\ child = "exited"
    /\ returncode' = childCode
    /\ pc' = "classify"
    /\ UNCHANGED << cmd, package_name, qryVars,
                    childVars, pipeVars, fdVars, supVars,
                    updVars, stderr, drains, stdout, endVars >>

\* update.py:93: communicate() of a process started with stderr=STDOUT has
\* no stderr stream to read and returns None for it.
UpdateCommunicate == None

\* update.py:91-117, then cli.py:367-369.
UpdateClassify ==
    /\ pc = "classify"
    /\ cmd = "update"
    /\ IF Failed(returncode)
       THEN /\ stderr' = UpdateCommunicate
            /\ drains' = drains + 1
            /\ Fail(UpdateError(stderr'))
            /\ UNCHANGED stdout
       ELSE /\ stdout' = stdout \o FinalLines \o CliOutput(SuccessReturn)
            /\ returned' = SuccessReturn
            /\ exitCode' = 0
            /\ pc' = "done"
            /\ UNCHANGED << raised, cliStderr, stderr, drains >>
    /\ UNCHANGED << cmd, package_name, qryVars,
                    childVars, pipeVars, fdVars, supVars,
                    updVars, returncode >>

(***************************************************************************)
(* The catalog queries, step by step.                                      *)
(***************************************************************************)
\* to_json(result), as main() prints it (cli.py:367-368)
ToJson(r) == [type |-> "json", value |-> r]

\* cli.py:236-311, 152-173 (cockpit_apt/cli.py:151-183): main() parses the
\* options and calls execute().
ParseArgs ==
    /\ pc = "main"
    /\ cmd \in QueryCmds
    /\ IF CliRejects(prog, argv)
       THEN Fail(APTBridgeError("INVALID_ARGUMENTS")) /\ UNCHANGED args
       ELSE args' = ExecuteArgs(argv) /\ pc' = "execute" /\ UNCHANGED endVars
    /\ UNCHANGED << cmd, streamVars, prog, argv, cache, store, cacheOpens,
                    storeLoads, iterated, result, stdout >>

\* The step after the cache was opened: the stores, or, where execute takes
\* no store_id, the tab.
AfterOpen ==
    IF cmd = "filter-packages" /\ prog = "cockpit_apt" THEN "tab"
    ELSE IF cmd \in DepCmds THEN "iterate" ELSE "stores"

\* filter_packages.py:62-64, list_categories.py:45-47: apt.Cache()
OpenCache ==
    /\ pc = "execute"
    /\ cacheOpens' = cacheOpens + 1
    /\ pc' = AfterOpen
    /\ UNCHANGED << cmd, streamVars, prog, argv, args, cache, store,
                    storeLoads, iterated, result, stdout, endVars >>

\* filter_packages.py:65-66, list_categories.py:48-49: apt.Cache() raises.
OpenCacheFails ==
    /\ pc = "execute"
    /\ cacheOpens' = cacheOpens + 1
    /\ Fail(CacheError)
    /\ UNCHANGED << cmd, streamVars, prog, argv, args, cache, store,
                    storeLoads, iterated, result, stdout >>

\* filter_packages.py:74-77 and list_repositories.py:59-63 raise CacheError,
\* list_categories.py:61-64 raises APTBridgeError with STORE_NOT_FOUND.
StoreNotFound(command) ==
    IF command \in { "filter-packages", "list-repositories" } THEN CacheError
    ELSE APTBridgeError("STORE_NOT_FOUND")

\* filter_packages.py:69-77, list_categories.py:53-66: the store of store_id
LoadStores ==
    /\ pc = "stores"
    /\ IF Truthy(args.store_id)
       THEN /\ storeLoads' = storeLoads + 1
            /\ LET matching_stores ==
                       SelectSeq(Stores, LAMBDA st : st.id = args.store_id.text)
               IN  IF matching_stores = << >>
                   THEN Fail(StoreNotFound(cmd)) /\ UNCHANGED store
                   ELSE /\ store' = Found(matching_stores[1])
                        /\ pc' = IF cmd = "filter-packages" THEN "tab"
                                 ELSE "iterate"
                        /\ UNCHANGED endVars
       ELSE /\ pc' = IF cmd = "filter-packages" THEN "tab" ELSE "iterate"
            /\ UNCHANGED << store, storeLoads, endVars >>
    /\ UNCHANGED << cmd, streamVars, prog, argv, args, cache, cacheOpens,
                    iterated, result, stdout >>

\* filter_packages.py:80-84
ValidateTab ==
    /\ pc = "tab"
    /\ IF Truthy(args.tab)
          /\ args.tab.text \notin { << "installed" >>, << "upgradable" >> }
       THEN Fail(CacheError)
       ELSE pc' = "iterate" /\ UNCHANGED endVars
    /\ UNCHANGED << cmd, streamVars, qryVars, stdout >>

\* The end of a query: execute returns r, main() prints it and exits 0.
Return(r) ==
    /\ result' = r
    /\ iterated' = Len(cache)
    /\ stdout' = Append(stdout, ToJson(r))
    /\ returned' = "result"
    /\ exitCode' = 0
    /\ pc' = "done"
    /\ UNCHANGED << raised, cliStderr >>

\* filter_packages.py:86-147
FilterPackages ==
    /\ pc = "iterate"
    /\ cmd = "filter-packages"
    /\ Return(FilterResult(cache, args, store))
    /\ UNCHANGED << cmd, streamVars, prog, argv, args, cache, store,
                    cacheOpens, storeLoads >>

\* list_categories.py:74-125
ListCategories ==
    /\ pc = "iterate"
    /\ cmd = "list-categories"
    /\ Return(CategoriesResult(cache, store))
    /\ UNCHANGED << cmd, streamVars, prog, argv, args, cache, store,
                    cacheOpens, storeLoads >>

\* list_repositories.py:65-127
ListRepositories ==
    /\ pc = "iterate"
    /\ cmd = "list-repositories"
    /\ Return(RepositoriesResult(cache, store))
    /\ UNCHANGED << cmd, streamVars, prog, argv, args, cache, store,
                    cacheOpens, storeLoads >>

\* cli.py:132-138, 322-329 and reverse_dependencies.py:28, details.py:72:
\* main() calls execute(), which validates the name first.
ValidateName ==
    /\ pc = "main"
    /\ cmd \in DepCmds
    /\ IF ~ValidPackageName(package_name)
       THEN Fail(APTBridgeError("INVALID_INPUT"))
       ELSE pc' = "execute" /\ UNCHANGED endVars
    /\ UNCHANGED << cmd, streamVars, qryVars, stdout >>

InCache(name) == \E k \in 1..Len(cache) : cache[k].name = name

\* execute returns r, main() prints it and exits 0.
Respond(r) ==
    /\ result' = r
    /\ stdout' = Append(stdout, ToJson(r))
    /\ returned' = "result"
    /\ exitCode' = 0
    /\ pc' = "done"
    /\ UNCHANGED << raised, cliStderr, iterated >>

\* reverse_dependencies.py:45-74
ReverseDependencies ==
    /\ pc = "iterate"
    /\ cmd = "reverse-dependencies"
    /\ IF ~InCache(Text(package_name))
       THEN Fail(PackageNotFoundError) /\ UNCHANGED << result, iterated, stdout >>
       ELSE Respond(ReverseDependenciesResult(cache, Text(package_name)))
    /\ UNCHANGED << cmd, streamVars, prog, argv, args, cache, store,
                    cacheOpens, storeLoads >>

\* details.py:89-129
Details ==
    /\ pc = "iterate"
    /\ cmd = "details"
    /\ IF ~InCache(Text(package_name))
       THEN Fail(PackageNotFoundError) /\ UNCHANGED << result, iterated, stdout >>
       ELSE Respond(DetailsResult(cache, Text(package_name)))
    /\ UNCHANGED << cmd, streamVars, prog, argv, args, cache, store,
                    cacheOpens, storeLoads >>

(***************************************************************************)
(* Specifications                                                          *)
(***************************************************************************)
ChildNext ==
    \/ ChildWriteStatus
    \/ ChildWriteStdout
    \/ ChildUnblock
    \/ ChildExit

SupervisorNext ==
    \/ Validate
    \/ PipeFails
    \/ SpawnFails
    \/ Spawn
    \/ Poll
    \/ Select
    \/ ReadRaw
    \/ Communicate
    \/ Classify
    \/ UpdateSpawn
    \/ UpdateSpawnFails
    \/ UpdateReadline
    \/ UpdateWait
    \/ UpdateClassify

QueryNext ==
    \/ ParseArgs
    \/ OpenCache
    \/ OpenCacheFails
    \/ LoadStores
    \/ ValidateTab
    \/ FilterPackages
    \/ ListCategories
    \/ ListRepositories
    \/ ValidateName
    \/ ReverseDependencies
    \/ Details

Next == ChildNext \/ SupervisorNext \/ QueryNext

Spec == Init /\ [][Next]_vars

\* The operating system schedules both processes: a step of the child or of
\* the supervisor that stays possible is eventually taken.
FairSpec == Spec /\ WF_vars(ChildNext) /\ WF_vars(SupervisorNext)

(***************************************************************************)
(* The helper functions, called on their own.                              *)
(***************************************************************************)
Functions == { "matches_store_filter", "_parse_status_line" }

\* The criterion lists of a StoreFilter; a filter with four empty lists is
\* rejected when it is constructed.
StoreFilters ==
    { f \in [ include_packages : { { }, { << "o", "n", "g" >> },
                                   { << "n", "g" >>, << "v", "i" >> } },
              include_origins : { { }, { << "H", "L" >> },
                                  { << "D", "e", "b" >>, << "a", "b" >> } },
              include_sections : { { }, { << "n", "e", "t" >> },
                                   { << "w", "e", "b" >>, << "n", "e", "t" >> } },
              include_tags : { { }, { << "m", "a", "r" >> },
                               { Tag(CategoryFacet, << "n", "a", "v" >>),
                                 Tag(CategoryFacet, << "m", "o", "n" >>) } } ] :
        \/ f.include_packages # { } \/ f.include_origins # { }
        \/ f.include_sections # { } \/ f.include_tags # { } }

\* Lines given to _parse_status_line, as their ':'-separated fields: one to
\* three fields, four fields, and five (a message that holds a ':').
ParseLines ==
    LET types == { "pmstatus", "dlstatus", "status" }
        percents == FloatStrings \cup { "abc" }
    IN  { << t >> : t \in types }
        \cup { << t, "nginx" >> : t \in types }
        \cup { << t, "nginx", p >> : t \in types, p \in percents }
        \cup { << t, "nginx", p, m >> :
                  t \in types, p \in percents, m \in { "Installing nginx", " ", "" } }
        \cup { << t, "nginx", p, "Get", " http://deb" >> :
                  t \in types, p \in percents }

FunctionInit ==
    /\ cmd \in Functions
    /\ pc = "call"
    /\ IF cmd = "matches_store_filter"
       THEN /\ cache \in { << pkg >> : pkg \in Packages }
            /\ store \in { Found([ id |-> << "h", "l" >>, filters |-> f,
                                    category_metadata |-> << >> ]) :
                               f \in StoreFilters }
            /\ status_buffer = << >>
       ELSE /\ cache = << >>
            /\ store = NoStore
            /\ status_buffer \in ParseLines
    /\ package_name = ""
    /\ prog = "cockpit_apt_bridge"
    /\ argv = [ store |-> None, repo |-> None, tab |-> None, search |-> None,
                limit |-> None ]
    /\ args = NoArgs
    /\ cacheOpens = 0 /\ storeLoads = 0 /\ iterated = 0
    /\ result = << >>
    /\ child = "none"
    /\ childCode = -1
    /\ childPending = NoWrite
    /\ nOut = 0 /\ nStatus = 0
    /\ outPipe = << >> /\ errPipe = << >> /\ statusPipe = << >>
    /\ status_write = "none" /\ status_read = "none" /\ writeCloses = 0
    /\ fileBuf = << >> /\ chunk = << >>
    /\ last_percentage = 0
    /\ discarded = 0
    /\ outLog = << >>
    /\ statusLog = << >>
    /\ total_repos = 0 /\ completed_repos = 0
    /\ returncode = -1
    /\ stderr = None
    /\ drains = 0
    /\ stdout = << >>
    /\ raised = NoError
    /\ returned = "unset"
    /\ cliStderr = << >>
    /\ exitCode = -1

\* matches_store_filter(pkg, store)
CallMatchesStoreFilter ==
    /\ pc = "call"
    /\ cmd = "matches_store_filter"
    /\ result' = MatchesStoreFilter(cache[1], store.config)
    /\ pc' = "returned"
    /\ UNCHANGED << cmd, streamVars, prog, argv, args, cache, store,
                    cacheOpens, storeLoads, iterated, stdout, endVars >>

\* _parse_status_line(line)
CallParseStatusLine ==
    /\ pc = "call"
    /\ cmd = "_parse_status_line"
    /\ result' = ParseStatusLine(status_buffer)
    /\ pc' = "returned"
    /\ UNCHANGED << cmd, streamVars, prog, argv, args, cache, store,
                    cacheOpens, storeLoads, iterated, stdout, endVars >>

FunctionNext ==
    \/ CallMatchesStoreFilter
    \/ CallParseStatusLine

FunctionSpec == FunctionInit /\ [][FunctionNext]_vars

(***************************************************************************)
(* Properties                                                              *)
(***************************************************************************)
IsProgress(i) == stdout[i].type = "progress"
IsStatusEvent(i) == IsProgress(i) /\ stdout[i].origin = "status"
IsFinalEvent(i) == IsProgress(i) /\ stdout[i].origin = "final"
IsResult(i) == stdout[i].type = "result"
Streams == cmd \in { "install", "remove" }
TypedErrors == { "APTBridgeError", "PackageNotFoundError" }

\* C1: in install and remove every event relayed from a status line has a
\* percentage strictly above that of the event printed before it (above 0
\* for the first), and last_percentage is the percentage of the last one.
C1_StatusEventsStrictlyIncrease ==
    Streams =>
        /\ \A i \in 1..Len(stdout) :
              IsStatusEvent(i) =>
                  /\ stdout[i].percentage >
                         (IF i = 1 THEN 0 ELSE stdout[i - 1].percentage)
                  /\ i > 1 => IsStatusEvent(i - 1)
        /\ \A i \in 1..Len(stdout) :
              (IsStatusEvent(i) /\ (i = Len(stdout) \/ ~IsStatusEvent(i + 1)))
                  => last_percentage = stdout[i].percentage

\* A parsed event was dropped by the dedupe test while another was relayed.
C1_Witness ==
    /\ Streams
    /\ discarded > 0
    /\ \E i \in 1..Len(stdout) : IsStatusEvent(i)

\* C2: under fair scheduling of the child and the supervisor, an install or
\* remove whose child was spawned ends: main() reaches sys.exit().
C2_EventuallyTerminal == (Streams /\ child = "running") ~> (pc = "done")

\* C3: once execute has ended after creating the status pipe, the write end
\* was closed exactly once.
C3_WriteEndClosedOnce ==
    (Streams /\ pc = "done" /\ status_write # "none") => writeCloses = 1

C5_NoHundredOnFailure ==
    (pc = "done" /\ returncode > 0) =>
        /\ raised.cls \in TypedErrors
        /\ \A i \in 1..Len(stdout) :
              /\ ~IsResult(i)
              /\ IsProgress(i) => stdout[i].percentage # 100

\* C5 amended: after a non-zero exit a typed error was raised, execute
\* returned nothing, and stdout holds neither the final completion event
\* (the 100% event printed after the exit test) nor a result.
C5_NoFinalLinesOnFailure ==
    (pc = "done" /\ returncode > 0) =>
        /\ raised.cls \in TypedErrors
        /\ returned = "unset"
        /\ \A i \in 1..Len(stdout) : ~IsFinalEvent(i) /\ ~IsResult(i)

\* A failed operation that had relayed an event of percentage 100.
C5_Witness ==
    /\ pc = "done" /\ returncode > 0
    /\ \E i \in 1..Len(stdout) : IsStatusEvent(i) /\ stdout[i].percentage = 100

\* The states of the supervisor (spec 4.7).
Phase ==
    CASE pc \in { "main", "starting" } -> 1               \* STARTING
      [] pc \in { "poll", "select", "read" } -> 2         \* RUNNING
      [] pc = "communicate" -> 3                          \* DRAINING
      [] pc \in { "classify", "done" } -> 4               \* TERMINATED

StatusEventCount ==
    Cardinality({ i \in 1..Len(stdout) : IsStatusEvent(i) })

\* C6: in install and remove the supervisor never steps back to an earlier
\* state; once the exit has been observed nothing is read from the status
\* pipe and no status event is printed; communicate() runs once, in
\* DRAINING, after the exit was observed; and the step that classifies
\* follows the drain.
C6_StateOrder ==
    [][ Streams =>
          /\ Phase' >= Phase
          /\ returncode # -1 =>
                /\ Len(statusPipe') >= Len(statusPipe)
                /\ fileBuf' = fileBuf /\ status_buffer' = status_buffer
                /\ StatusEventCount' = StatusEventCount
          /\ drains' # drains =>
                /\ drains = 0 /\ Phase = 3 /\ returncode # -1
          /\ (pc = "classify" /\ pc' = "done") => drains = 1
      ]_vars

\* An install that went through all four states after relaying an event.
C6_Witness ==
    /\ cmd = "install" /\ pc = "done" /\ drains = 1
    /\ StatusEventCount > 0

\* C7: every progress event of install and remove has a percentage in 0..100.
C7_PercentageInRange ==
    Streams =>
        \A i \in 1..Len(stdout) :
            IsProgress(i) => stdout[i].percentage \in 0..100

LastPercentage ==
    IF Len(stdout) = 0 THEN 0 ELSE stdout[Len(stdout)].percentage

C9_ResolveFailureIsNetworkError ==
    (cmd = "update" /\ pc = "done" /\ returncode > 0
        /\ \E i \in 1..Len(outLog) : outLog[i].kind = "Could not resolve")
      => raised.code = "NETWORK_ERROR"

\* C10: install raises after the drain exactly when the exit code is not 0,
\* and then by precedence: not found, locked, disk full, install failed.
C10_InstallPrecedence ==
    (cmd = "install" /\ pc = "done" /\ drains = 1) =>
        LET notFound == Contains(stderr.text, "Unable to locate package")
            locked == Contains(stderr.text, "dpkg was interrupted")
            full == Contains(stderr.text, "You don't have enough free space")
        IN  IF returncode = 0 THEN raised = NoError /\ exitCode = 0
            ELSE /\ notFound => raised = PackageNotFoundError
                 /\ (~notFound /\ locked) => raised = APTBridgeError("LOCKED")
                 /\ (~notFound /\ ~locked /\ full)
                        => raised = APTBridgeError("DISK_FULL")
                 /\ (~notFound /\ ~locked /\ ~full)
                        => raised = APTBridgeError("INSTALL_FAILED")

\* A failed install whose stderr named both a missing package and the lock.
C10_Witness ==
    /\ cmd = "install" /\ pc = "done" /\ drains = 1 /\ returncode > 0
    /\ Contains(stderr.text, "Unable to locate package")
    /\ Contains(stderr.text, "dpkg was interrupted")
    /\ raised = PackageNotFoundError

\* C11: for install and remove alike, a failed run whose stderr holds the
\* insufficient-space phrase, and neither a not-found phrase nor the lock
\* phrase, is reported with code DISK_FULL.
C11_DiskFullReported ==
    (Streams /\ pc = "done" /\ drains = 1 /\ returncode # 0
        /\ Contains(stderr.text, "You don't have enough free space")
        /\ ~Contains(stderr.text, "Unable to locate package")
        /\ ~Contains(stderr.text, "is not installed")
        /\ ~Contains(stderr.text, "dpkg was interrupted"))
    => raised = APTBridgeError("DISK_FULL")

\* What a rejection by validation leaves behind: no pipe, no child, no line
\* on stdout, the given code on stderr and exit code 1.
RejectedWith(code) ==
    /\ pc = "done"
    /\ raised = APTBridgeError(code)
    /\ exitCode = 1
    /\ status_read = "none" /\ status_write = "none" /\ writeCloses = 0
    /\ child = "none"
    /\ stdout = << >>

\* C12: once install or remove has left main() for execute(), an invalid
\* package name has been rejected with INVALID_INPUT, and for remove an
\* essential package with ESSENTIAL_PACKAGE, before the status pipe exists
\* and before a child was spawned, with nothing printed on stdout.
C12_RejectedBeforePipe ==
    (Streams /\ pc # "main") =>
        /\ ~ValidPackageName(package_name) => RejectedWith("INVALID_INPUT")
        /\ (cmd = "remove" /\ package_name = "bash")
               => RejectedWith("ESSENTIAL_PACKAGE")

\* remove of the essential package bash was rejected.
C12_Witness ==
    /\ cmd = "remove" /\ package_name = "bash"
    /\ RejectedWith("ESSENTIAL_PACKAGE")

\* C14: a command that ended on an unexpected internal failure (reported as
\* INTERNAL_ERROR) made the process exit with code 2.
C14_InternalFailureExitsTwo ==
    (pc = "done" /\ raised.code = "INTERNAL_ERROR") => exitCode = 2

(***************************************************************************)
(* Properties of the catalog queries                                       *)
(***************************************************************************)
ValidTabs == { << "installed" >>, << "upgradable" >> }
Filtering == cmd = "filter-packages"

\* execute() has returned a value and main() has printed it.
Answered == pc = "done" /\ returned = "result"

\* C13: a filter-packages call with a non-empty tab other than 'installed'
\* or 'upgradable' never opens the package cache and never loads the store
\* configurations, and it ends with an error.
C13_TabRejectedBeforeExternalCall ==
    (Filtering /\ Truthy(argv.tab) /\ argv.tab.text \notin ValidTabs) =>
        /\ cacheOpens = 0 /\ storeLoads = 0
        /\ pc = "done" => raised # NoError

\* The store id given to execute() is the id of no loaded store.
StoreAbsent ==
    /\ Truthy(args.store_id)
    /\ \A i \in 1..Len(Stores) : Stores[i].id # args.store_id.text

\* C15: a query that looked its store id up and did not find it ended with
\* an error whose code is not the cache-failure code, before it visited a
\* package.
C15_StoreNotFoundIsDistinct ==
    (cmd \in QueryCmds /\ pc = "done" /\ storeLoads = 1 /\ StoreAbsent) =>
        /\ raised # NoError
        /\ raised.code # CacheError.code
        /\ iterated = 0

\* C16: with limit >= 0, filter_packages returns total_count = the number of
\* matching packages, packages = the first limit of them in cache order,
\* limited = (total_count > limit); with limit = 0 no package and
\* limited = (total_count > 0).
C16_CountAndLimit ==
    (Filtering /\ Answered /\ args.limit >= 0) =>
        LET m == MatchingPackages(cache, args, store)
            n == IF args.limit < Len(m) THEN args.limit ELSE Len(m)
        IN  /\ result.total_count = Len(m)
            /\ result.packages = [i \in 1..n |-> FormatPackage(m[i])]
            /\ result.limited = (Len(m) > args.limit)
            /\ args.limit = 0 =>
                   /\ result.packages = << >>
                   /\ result.limited = (result.total_count > 0)

\* Two packages matched and one was returned.
C16_Witness ==
    /\ Filtering /\ Answered
    /\ args.limit = 1 /\ result.total_count = 2
    /\ Len(result.packages) = 1 /\ result.limited

\* What the four stages require of a package, said of its attributes.
Expected(pkg) ==
    /\ pkg.candidate
    /\ Truthy(args.store_id) => MatchesStoreFilter(pkg, Stores[1])
    /\ Truthy(args.repository_id) =>
           PackageMatchesRepository(pkg, args.repository_id.text)
    /\ (~args.tab.isNone /\ args.tab.text = << "installed" >>) => pkg.is_installed
    /\ (~args.tab.isNone /\ args.tab.text = << "upgradable" >>) => pkg.is_upgradable
    /\ Truthy(args.search_query) =>
           \/ IsSubstring(Lower(args.search_query.text), Lower(pkg.name))
           \/ /\ pkg.summary # << >>
              /\ IsSubstring(Lower(args.search_query.text), Lower(pkg.summary))

NamesOf(packages) == { packages[i].name : i \in 1..Len(packages) }

\* The arguments with one stage, or none, switched off.
Relaxed ==
    { args, [args EXCEPT !.repository_id = None], [args EXCEPT !.tab = None],
      [args EXCEPT !.search_query = None] }

\* C17: filter_packages counts exactly the packages that have a candidate
\* and pass every active stage, and switching a stage off (or dropping the
\* store) never removes a package from the matches.
C17_CascadeNarrows ==
    (Filtering /\ Answered) =>
        LET wanted == { i \in 1..Len(cache) : Expected(cache[i]) }
            matched == NamesOf(MatchingPackages(cache, args, store))
        IN  /\ result.total_count = Cardinality(wanted)
            /\ args.limit >= Len(cache) =>
                   NamesOf(result.packages) = { cache[i].name : i \in wanted }
            /\ \A a \in Relaxed : \A st \in { store, NoStore } :
                   matched \subseteq NamesOf(MatchingPackages(cache, a, st))

\* The upgradable tab of a store kept one of two packages of the store.
C17_Witness ==
    /\ Filtering /\ Answered
    /\ Truthy(args.store_id)
    /\ args.tab = Str(<< "upgradable" >>)
    /\ Len(cache) = 2 /\ result.total_count = 1

FilterEntry(key, x) == IF Truthy(x) THEN << << key >> \o x.text >> ELSE << >>

\* C18: applied_filters holds one "key=value" entry per active stage, none
\* for an inactive one, in the order store, repository, tab, search.
C18_AppliedFilters ==
    (Filtering /\ Answered) =>
        result.applied_filters =
            FilterEntry("store=", args.store_id)
            \o FilterEntry("repository=", args.repository_id)
            \o FilterEntry("tab=", args.tab)
            \o FilterEntry("search=", args.search_query)

\* All four stages were active on an empty cache; an empty search is not a
\* stage.
C18_Witness ==
    /\ Filtering /\ Answered
    /\ Len(result.applied_filters) = 4 /\ cache = << >>

\* C19: a filter-packages command line with a negative --limit ends with
\* INVALID_ARGUMENTS without execute() being called, and execute() only runs
\* with limit >= 0.
C19_NegativeLimitRejected ==
    (Filtering /\ pc # "main") =>
        /\ (~argv.limit.isNone /\ argv.limit.text = << "-1" >>) =>
               /\ pc = "done" /\ raised = APTBridgeError("INVALID_ARGUMENTS")
               /\ cacheOpens = 0
        /\ args.limit >= 0

\* The packages of the cache list_categories counts for category id.
Carriers(id) ==
    { i \in 1..Len(cache) :
        /\ store.isNone \/ MatchesStoreFilter(cache[i], store.config)
        /\ cache[i].candidate
        /\ \E k \in 1..Len(cache[i].tags) :
               cache[i].tags[k] = Tag(CategoryFacet, id) }

Reversed(seq) == [i \in 1..Len(seq) |-> seq[Len(seq) + 1 - i]]
CountsOf(categories) ==
    { << categories[i].id, categories[i].count >> : i \in 1..Len(categories) }

\* C20: list_categories reports for each category id the number of packages
\* that pass the store filter, have a candidate and carry the tag; every
\* count is positive and the counts are those of the reversed cache.
C20_CategoryCounts ==
    (cmd = "list-categories" /\ Answered) =>
        /\ \A i \in 1..Len(result) :
               /\ result[i].count = Cardinality(Carriers(result[i].id))
               /\ result[i].count > 0
        /\ CountsOf(result) = CountsOf(CategoriesResult(Reversed(cache), store))

\* The packages of the cache whose first origin record is that of
\* repository r and that pass the filter of the store.
StoreMembers(r) ==
    { i \in 1..Len(cache) :
        /\ cache[i].origins # << >>
        /\ OriginOrLabel(cache[i].origins[1]) = OriginOrLabel(r)
        /\ cache[i].origins[1].suite = r.suite
        /\ MatchesStoreFilter(cache[i], store.config) }

\* C21: with a store, list_repositories returns exactly the known
\* repositories that have a package of the store, each once and with the
\* number of those packages, sorted by name without regard to case.
C21_StoreRecount ==
    (cmd = "list-repositories" /\ Answered /\ ~store.isNone) =>
        LET known == ParseRepositories(cache)
            ids == { result[i].id : i \in 1..Len(result) }
        IN  /\ ids = { known[k].id : k \in { k \in 1..Len(known) :
                                                StoreMembers(known[k]) # { } } }
            /\ Cardinality(ids) = Len(result)
            /\ \A i \in 1..Len(result) :
                   result[i].package_count = Cardinality(StoreMembers(result[i]))
            /\ \A i, j \in 1..Len(result) :
                   i < j => ~TextLess(Lower(result[j].name), Lower(result[i].name))

\* Two repositories of the store, the one with the lower-case name first.
C21_Witness ==
    /\ cmd = "list-repositories" /\ Answered /\ ~store.isNone
    /\ Len(result) = 2 /\ Len(cache) = 2
    /\ TextLess(result[2].name, result[1].name)

\* C22: matches_store_filter is true exactly when the package is in a
\* criterion list by its name, by the origin or label of its first origin
\* record, by its section or by one of its raw tags; an empty list neither
\* matches nor forbids, and with one non-empty list the result is the
\* membership in that list.
C22_AnyCriterion ==
    (cmd = "matches_store_filter" /\ pc = "returned") =>
        LET pkg == cache[1]
            f == store.config.filters
            byName == pkg.name \in f.include_packages
            byOrigin == /\ pkg.origins # << >>
                        /\ OriginOrLabel(pkg.origins[1]) \in f.include_origins
            bySection == pkg.section \in f.include_sections
            byTag == \E i \in 1..Len(pkg.tags) : pkg.tags[i] \in f.include_tags
            only(list) == \A other \in { f.include_packages, f.include_origins,
                                          f.include_sections, f.include_tags } :
                              other # list => other = { }
        IN  /\ result = (byName \/ byOrigin \/ bySection \/ byTag)
            /\ only(f.include_packages) => result = byName
            /\ only(f.include_origins) => result = byOrigin
            /\ only(f.include_sections) => result = bySection
            /\ only(f.include_tags) => result = byTag

\* A package matched by its tag alone, the origin and section lists being
\* non-empty and not matching.
C22_Witness ==
    /\ cmd = "matches_store_filter" /\ pc = "returned" /\ result = TRUE
    /\ cache[1].name = << "s", "k" >>
    /\ store.config.filters =
           [ include_packages |-> { },
             include_origins |-> { << "D", "e", "b" >>, << "a", "b" >> },
             include_sections |-> { << "n", "e", "t" >> },
             include_tags |-> { << "m", "a", "r" >> } ]

\* The percent fields that are decimal numerals, and their integer parts.
Decimals == { "25.5", "25.0", "100.0", "150", "-5.7" }
Truncated(s) ==
    CASE s = "25.5" -> 25 [] s = "25.0" -> 25 [] s = "100.0" -> 100
      [] s = "150" -> 150 [] s = "-5.7" -> -5

\* C24: _parse_status_line returns None for a line of fewer than four
\* fields, of another type than pmstatus or dlstatus, or with a percent
\* field that is no number; otherwise the truncated percent and the trimmed
\* rest of the line as message, or 'Processing {package}...' when that is
\* empty.
C24_ParseStatusLine ==
    (cmd = "_parse_status_line" /\ pc = "returned") =>
        LET line == status_buffer IN
        IF \/ Len(line) < 4
           \/ line[1] \notin { "pmstatus", "dlstatus" }
           \/ line[3] \notin Decimals
        THEN result = [res |-> "None"]
        ELSE /\ result.res = "event"
             /\ result.percentage = Truncated(line[3])
             /\ result.message =
                    IF Len(line) = 4 /\ line[4] \in { " ", "" }
                    THEN << "Processing ", line[2], "..." >>
                    ELSE SubSeq(line, 4, Len(line))

\* The output lines of apt-get update that readline() has returned so far.
ReadLines ==
    SubSeq(outLog, 1,
           Len(outLog) - Len(outPipe) - (IF childPending = NoWrite THEN 0 ELSE 1))

Indexed(line) == line.kind \in { "Get", "Hit", "Ign" } /\ line.idx >= 0

\* The highest index among the first k lines read, 0 when there is none.
HighestIndex(k) ==
    LET idxs == { ReadLines[i].idx : i \in { i \in 1..k : Indexed(ReadLines[i]) } }
    IN  IF idxs = { } THEN 0 ELSE CHOOSE m \in idxs : \A n \in idxs : n <= m

\* The number of Get and Hit lines among the first k lines read.
GetHitCount(k) ==
    Cardinality({ i \in 1..k : /\ Indexed(ReadLines[i])
                                /\ ReadLines[i].kind \in { "Get", "Hit" } })

\* The lines read that report a percentage, and the events relayed.
Reporting ==
    SelectSeq([k \in 1..Len(ReadLines) |-> k],
              LAMBDA k : Indexed(ReadLines[k]) /\ HighestIndex(k) > 0)
StatusEvents == SelectSeq(stdout, LAMBDA e : e.type = "progress" /\ e.origin = "status")

\* C25: in update the event reported for a Get:/Hit:/Ign: line carries
\* floor(100 * completed / total), total being the highest index read so
\* far and completed the number of Get and Hit lines read so far.
C25_CountOverHighest ==
    cmd = "update" =>
        /\ Len(StatusEvents) = Len(Reporting)
        /\ \A j \in 1..Len(StatusEvents) :
               StatusEvents[j].percentage =
                   (100 * GetHitCount(Reporting[j])) \div HighestIndex(Reporting[j])

\* C30: every progress event of update has a percentage from 0 to 100,
\* completed never exceeds total, and no event is reported while total is 0.
C30_UpdatePercentageInRange ==
    cmd = "update" =>
        /\ \A i \in 1..Len(stdout) :
               IsProgress(i) => stdout[i].percentage \in 0..100
        /\ completed_repos <= total_repos
        /\ total_repos = 0 => StatusEvents = << >>
        /\ Len(StatusEvents) = Len(Reporting)

\* An update that reported 0% for an ignored item and 100% for a hit.
C30_Witness ==
    /\ cmd = "update" /\ Len(StatusEvents) >= 2
    /\ StatusEvents[1].percentage = 0
    /\ StatusEvents[Len(StatusEvents)].percentage = 100

\* C26: in install and remove, when execute has drained the child and gives
\* its final event or its terminal error, no complete status line is left
\* unread in the status pipe, in the file object or in the line buffer.
C26_StatusLinesAllRead ==
    (Streams /\ pc = "done" /\ drains = 1) =>
        /\ ~HasNL(statusPipe)
        /\ ~HasNL(fileBuf)
        /\ ~HasNL(chunk)
        /\ ~HasNL(status_buffer)

\* C28: in install and remove, once the read end of the status pipe exists
\* it is closed by the time execute has returned or raised.
C28_ReadEndClosed ==
    (Streams /\ pc = "done" /\ status_read # "none") => status_read = "closed"

\* The part of the status stream that read(1024) has handed to the loop:
\* what the child wrote, less what is still in its blocked write, in the
\* pipe, in the file object and in the read in progress.
Unconsumed ==
    Len(chunk) + Len(fileBuf) + Len(statusPipe)
        + (IF childPending # NoWrite /\ childPending.fd = "status"
           THEN Len(childPending.data) ELSE 0)
Consumed == SubSeq(statusLog, 1, Len(statusLog) - Unconsumed)

\* C27: in install and remove the events relayed from the status stream,
\* the last percentage and the unfinished line kept are those of the
\* consumed stream split into lines in one go, however the reads divided it.
C27_ChunkingIndependent ==
    Streams =>
        \E whole \in { ProcessLines(Consumed, 0, << >>, 0) } :
            /\ StatusEvents = whole.printed
            /\ discarded = whole.dropped
            /\ status_buffer = whole.status_buffer
            /\ last_percentage = whole.last_percentage

\* Two status lines, each longer than one read, consumed to the end and
\* relayed as two events.
C27_Witness ==
    /\ Streams /\ pc = "done" /\ drains = 1
    /\ Unconsumed = 0 /\ nStatus = 2
    /\ Len(statusLog) > 2 * ReadSize
    /\ Len(StatusEvents) = 2

\* The packages of the cache that name the queried package in at least one
\* OR-group of their candidate's dependencies.
DependentsOf(name) ==
    { cache[k].name : k \in { j \in 1..Len(cache) :
        /\ cache[j].candidate
        /\ \E g \in 1..Len(cache[j].dependencies) :
               Names(cache[j].dependencies[g], name) } }

\* C23: reverse-dependencies returns at most 50 names, in alphabetical
\* order, each the name of a package of the cache that lists the queried
\* package in one of its OR-groups.
C23_ReverseDepsCappedSorted ==
    (cmd = "reverse-dependencies" /\ returned = "result") =>
        /\ Len(result) <= 50
        /\ \A i, j \in 1..Len(result) : i < j => ~TextLess(result[j], result[i])
        /\ \A i \in 1..Len(result) : result[i] \in DependentsOf(Text(package_name))

\* A cache with more dependents than the cap, of which 50 were returned.
C23_Witness ==
    /\ cmd = "reverse-dependencies" /\ returned = "result"
    /\ Cardinality(DependentsOf(Text(package_name))) > 50
    /\ Len(result) = 50

\* C29: the reverseDependencies of details are the list reverse-dependencies
\* returns for the same cache and package, and no name is in it twice.
C29_DetailsAgrees ==
    (cmd = "details" /\ returned = "result") =>
        /\ result.reverseDependencies =
               ReverseDependenciesResult(cache, Text(package_name))
        /\ \A i, j \in 1..Len(result.reverseDependencies) :
               i # j => result.reverseDependencies[i] # result.reverseDependencies[j]

====
